---- MODULE Spec2Model ----
(***************************************************************************)
(* Model of the document ingestion pipeline: the /api/retrieval/process    *)
(* route handler (POST), its DOCX sibling, the files table's processing    *)
(* status fields and the file_items table.                                 *)
(*                                                                         *)
(* Every await of a handler that touches the record store, the blob store  *)
(* or the embedding provider is one step of the request's process, so      *)
(* concurrent requests interleave exactly at the handler's awaits.         *)
(***************************************************************************)
EXTENDS Integers, Sequences, FiniteSets, TLC

\* ---------------------------------------------------------------- bounds
MaxRequests == 2
MaxChunks == 3

\* ------------------------------------------------------ program constants
MAX_TOKENS_PER_REQUEST == 300000
MAX_BATCH_TOKENS == 250000
CHUNK_SIZE == 2000
CHUNK_OVERLAP == 200
BATCH_SIZE == 50
MAX_FILE_SIZE == 200 * 1024 * 1024
SIZE_LIMIT == 200000000

NULL == "null"
NoUser == "nouser"
\* an absent / present nullable value that is not a string
None == <<>>
Some(v) == <<v>>

Requests == 1..MaxRequests
Users == {"u1", "u2"}
FileIds == {"f1"}

\* The form fields a client can post to the main route, with the caller the
\* server resolves for the session (NoUser: no session): the well-formed
\* requests of every caller, and one request for each malformed field
\* ("f9": no such row in files; "": field missing; "bogus": no provider).
MainInputs ==
  [caller : Users \cup {NoUser}, file_id : FileIds, embeddingsProvider : {"openai", "local"}]
  \cup { [caller |-> "u1", file_id |-> "f9", embeddingsProvider |-> "openai"],
         [caller |-> "u1", file_id |-> "", embeddingsProvider |-> "openai"],
         [caller |-> "u1", file_id |-> "f1", embeddingsProvider |-> "bogus"] }

\* The JSON bodies a client can post to the DOCX route (text given as the
\* number of chunks processDocX makes of it)
DocxInputs ==
  [caller : Users, fileId : FileIds, embeddingsProvider : {"openai", "local"},
   fileExtension : {"docx"}, text : {1}]
  \cup { [caller |-> NoUser, fileId |-> "f1", embeddingsProvider |-> "openai",
          fileExtension |-> "docx", text |-> 1],
         [caller |-> "u1", fileId |-> "f1", embeddingsProvider |-> "openai",
          fileExtension |-> "txt", text |-> 1],
         [caller |-> "u1", fileId |-> "f1", embeddingsProvider |-> "local",
          fileExtension |-> "docx", text |-> 0] }

\* ------------------------------------------------------------- messages
MsgMissingParams == "Missing required parameters: file_id and embeddingsProvider"
MsgInvalidProvider == "Invalid embeddings provider. Must be 'openai' or 'local'"
MsgMetadata == "Failed to retrieve file metadata: JSON object requested, multiple (or no) rows returned"
MsgUnauthorized == "Unauthorized: File belongs to different user"
MsgTooLarge == "File too large: Maximum size is 200MB"
MsgConcurrent == "File is currently being processed by another request"
MsgStorage == "Failed to retrieve file from storage: Object not found"
MsgApiKey == "OpenAI API Key not found, make sure it is configured or else use local embeddings"
MsgUnsupported == "Unsupported file type"
MsgNoChunks == "File could not be processed or is empty"
MsgProfile == "User not found"
MsgProviderConn == "Connection error."
MsgProviderTimeout == "upstream request timeout"

\* messages of the errors the browser's fetch and JSON.parse throw
MsgAborted == "The user aborted a request."
MsgFailedToFetch == "Failed to fetch"
MsgNetworkError == "NetworkError when attempting to fetch resource."
MsgLoadFailed == "Load failed"
MsgUnexpectedToken == "Unexpected token < in JSON at position 0"

\* messages the embedding provider's client can throw
ProviderErrors == {MsgProviderConn, MsgProviderTimeout}

\* String.prototype.includes over the messages above: the keywords of the
\* error categorisation that occur in each message (case-sensitive).
Keywords(msg) ==
  CASE msg = MsgUnauthorized -> {"Unauthorized"}
    [] msg = MsgTooLarge -> {"too large", "size"}
    [] msg = MsgStorage -> {"not found"}
    [] msg = MsgApiKey -> {"not found"}
    [] msg = MsgProfile -> {"not found"}
    [] msg = MsgProviderTimeout -> {"timeout"}
    [] msg = MsgFailedToFetch -> {"fetch"}
    [] msg = MsgNetworkError -> {"fetch"}
    [] msg = MsgUnexpectedToken -> {"token"}
    [] OTHER -> {}

Includes(msg, kw) == kw \in Keywords(msg)

\* variant: the recorded status takes a message about a size for a time-out
errorStatus_SizeIsTimeout(msg) ==
  IF Includes(msg, "timeout") \/ Includes(msg, "size") THEN "timeout" ELSE "failed"

\* const errorStatus = error.message?.includes("timeout") ? "timeout" : "failed"
errorStatus(msg) == IF Includes(msg, "timeout") THEN "timeout" ELSE "failed"

\* the if/else-if chain that selects the response code
errorCode(msg) ==
  IF Includes(msg, "timeout") THEN 408
  ELSE IF Includes(msg, "too large") \/ Includes(msg, "size") THEN 413
  ELSE IF Includes(msg, "unauthorized") \/ Includes(msg, "Unauthorized") THEN 403
  ELSE IF Includes(msg, "not found") \/ Includes(msg, "File not found") THEN 404
  ELSE IF Includes(msg, "token") \/ Includes(msg, "limit") THEN 413
  ELSE IF Includes(msg, "network") \/ Includes(msg, "connection") THEN 503
  ELSE 500

errorMessage(msg) ==
  IF Includes(msg, "timeout")
    THEN "Processing timed out. The file is too large or complex for processing."
  ELSE IF Includes(msg, "too large") \/ Includes(msg, "size")
    THEN "File is too large for processing. Please try a smaller file."
  ELSE IF Includes(msg, "unauthorized") \/ Includes(msg, "Unauthorized")
    THEN "Unauthorized access to file."
  ELSE IF Includes(msg, "not found") \/ Includes(msg, "File not found")
    THEN "File not found. It may have been deleted."
  ELSE IF Includes(msg, "token") \/ Includes(msg, "limit")
    THEN "File exceeds processing limits. Please try a smaller file."
  ELSE IF Includes(msg, "network") \/ Includes(msg, "connection")
    THEN "Network error during processing. Please try again."
  ELSE msg

\* ------------------------------------------------------------ file kinds
\* What an uploaded file can be: its extension, its declared size and the
\* chunk sequence its extractor yields (tokens per chunk).
ChunkSeq(n, t) == [k \in 1..n |-> [content |-> k, tokens |-> t]]

FileKinds ==
  { [ext |-> "txt", size |-> MAX_FILE_SIZE, chunks |-> ChunkSeq(MaxChunks, CHUNK_SIZE)],
    [ext |-> "txt", size |-> 1024, chunks |-> ChunkSeq(0, CHUNK_SIZE)],
    [ext |-> "xyz", size |-> 1024, chunks |-> ChunkSeq(1, CHUNK_SIZE)],
    [ext |-> "txt", size |-> MAX_FILE_SIZE + 1, chunks |-> ChunkSeq(1, CHUNK_SIZE)] }

SupportedExtensions == {"csv", "json", "md", "pdf", "txt"}

VARIABLES
  files,       \* the files table: id -> row
  file_items,  \* the file_items table: sequence of chunk rows, in insert order
  blob,        \* content of the stored blob of each file (its kind)
  rq,          \* per request: inputs and the handler's local variables
  pc,          \* per request: position in the handler
  resp,        \* per request: the response returned (NULL while none)
  clock,       \* wall clock, for the timestamps written
  NODE_ENV,    \* process.env.NODE_ENV of the server
  driver,      \* the browser side: one upload call and its background job
  pdf          \* one run of the PDF extractor: its pages, loop index and output

vars == <<files, file_items, blob, rq, pc, resp, clock, NODE_ENV, driver, pdf>>

\* ------------------------------------------------------------------ Init
\* Buffer.from(file_id).toString("base64"): an encoding, one to one
base64(s) == <<"base64", s>>

\* const filePath = `${payload.user_id}/${base64 of payload.file_id}`
filePath(user_id, file_id) == <<user_id, base64(file_id)>>

\* a row of the files table once the upload has stored the blob and written
\* its path (createFile passes the record's name as payload.file_id)
Uploaded(row) == [row EXCEPT !.file_path = Some(filePath(row.user_id, row.name))]

\* A row of the files table as the upload creates it: processing_status has
\* the column default 'pending', the other processing fields are null.
NewFileRow(owner, name, kind) ==
  [ user_id |-> owner,
    name |-> name,
    file_path |-> None,
    ext |-> kind.ext,
    size |-> kind.size,
    tokens |-> 0,
    processing_status |-> "pending",
    processing_error |-> NULL,
    processing_started_at |-> None,
    processing_completed_at |-> None ]

NoResponse == [status |-> 0, message |-> "", error |-> NULL, statistics |-> None]

IdleRequest ==
  [ route |-> "", caller |-> NoUser, file_id |-> "", embeddingsProvider |-> "",
    fileExtension |-> "", text |-> <<>>,
    bodyUsed |-> FALSE,
    timeoutId |-> "unset",      \* unset | armed | cleared | fired
    fileMetadata |-> None,
    error |-> "",               \* message of the error being handled by catch
    chunks |-> <<>>, totalTokens |-> 0, totalChunks |-> 0,
    i |-> 0,                    \* offset of the current batch in chunks
    k |-> 1,                    \* loop index inside processBatchEmbeddings
    batchEmbeddings |-> <<>>, currentSubBatch |-> <<>>, currentSubBatchTokens |-> 0,
    writes |-> <<>>,            \* history: the record-store writes issued
    calls |-> <<>> ]            \* history: the inputs of the provider calls made

\* the browser side before any upload is started
IdleDriver ==
  [ ext |-> "",            \* extension of the file being uploaded
    name |-> "",           \* fileRecord.name after createFile's clean-up
    size |-> 0,            \* file.size
    filePath |-> None,     \* what uploadFile returned
    steps |-> <<>>,        \* history: the store calls of the upload that succeeded
    fileId |-> "",         \* createdFile.id, once the record is inserted
    upc |-> "idle",        \* position of the upload (createFile / createDocXFile)
    bpc |-> "none",        \* position of processFileInBackground
    retryCount |-> 0,      \* argument of the current processFileInBackground call
    now |-> 0,             \* browser time, ms
    timerAt |-> 0,         \* due time of the pending setTimeout
    attempts |-> <<>>,     \* history: the processing requests issued
    toasts |-> <<>> ]      \* history: the toasts shown

\* processPdf before it is called
IdlePdf == [docs |-> <<>>, pageIndex |-> 0, chunks |-> <<>>, state |-> "idle"]

Init ==
  /\ driver = IdleDriver
  /\ pdf = IdlePdf
  /\ \E kind \in FileKinds :
       /\ files = [f \in FileIds |-> Uploaded(NewFileRow("u1", f, kind))]
       /\ blob = [f \in FileIds |-> kind]
  /\ file_items = <<>>
  /\ rq = [r \in Requests |-> IdleRequest]
  /\ pc = [r \in Requests |-> "idle"]
  /\ resp = [r \in Requests |-> NoResponse]
  /\ clock = 1
  /\ NODE_ENV \in {"development", "production"}

\* --------------------------------------------------------------- helpers
InFlight(r) == pc[r] \notin {"idle", "done", "crashed"}

\* clearTimeout(timeoutId): disarms a pending timer, no effect otherwise
clearTimeout(t) == IF t = "armed" THEN "cleared" ELSE t

\* throw new Error(msg) inside the handler's try block: control goes to catch
Throw(r, msg, cleared) ==
  /\ rq' = [rq EXCEPT ![r].error = msg,
                      ![r].timeoutId = IF cleared THEN clearTimeout(@) ELSE @]
  /\ pc' = [pc EXCEPT ![r] = "catch"]

RowsOf(fid) == {n \in 1..Len(file_items) : file_items[n].file_id = fid}

\* variant: the guard tests length > 1
HasExistingChunks_MoreThanOne(fid) == Cardinality(RowsOf(fid)) > 1

\* existingChunks && existingChunks.length > 0
HasExistingChunks(fid) == RowsOf(fid) # {}

\* variant: the in-flight check is missing
IsProcessing_Never(fileMetadata) == FALSE

\* fileMetadata.processing_status === "processing"
IsProcessing(fileMetadata) == fileMetadata.processing_status = "processing"

\* variant: the update leaves processing_error as it was
ProcessingUpdate_KeepsError(row, now) ==
  [row EXCEPT !.processing_status = "processing",
              !.processing_started_at = Some(now)]

\* the three updates of the files row
ProcessingUpdate(row, now) ==
  [row EXCEPT !.processing_status = "processing",
              !.processing_started_at = Some(now),
              !.processing_error = NULL]

\* variant: only the token total is written
CompletedUpdate_TokensOnly(row, totalTokens, now) ==
  [row EXCEPT !.tokens = totalTokens]

CompletedUpdate(row, totalTokens, now) ==
  [row EXCEPT !.tokens = totalTokens,
              !.processing_status = "completed",
              !.processing_completed_at = Some(now),
              !.processing_error = NULL]

\* variant: the failure update also resets the token total
FailedUpdate_ResetsTokens(row, msg, now) ==
  [row EXCEPT !.processing_status = errorStatus(msg),
              !.processing_completed_at = Some(now),
              !.processing_error = msg,
              !.tokens = 0]

FailedUpdate(row, msg, now) ==
  [row EXCEPT !.processing_status = errorStatus(msg),
              !.processing_completed_at = Some(now),
              !.processing_error = msg]

\* history entry of a record-store write: what was written, and whether the
\* store applied it
Write(op, ok) == [op |-> op, ok |-> ok]

\* ------------------------------------------------- main route: admission
\* A client issues POST /api/retrieval/process (Request.formData() not yet
\* read); the handler arms its 9 minute timer.
Request(r) ==
  /\ pc[r] = "idle"
  /\ \A q \in Requests : q < r => pc[q] # "idle"
  /\ \E in \in MainInputs :
       rq' = [rq EXCEPT ![r].route = "main", ![r].caller = in.caller,
                        ![r].file_id = in.file_id,
                        ![r].embeddingsProvider = in.embeddingsProvider,
                        ![r].timeoutId = "armed"]
  /\ pc' = [pc EXCEPT ![r] = "profile"]
  /\ UNCHANGED <<files, file_items, blob, resp, clock, NODE_ENV, driver, pdf>>

\* getServerProfile(), req.formData() and the validation of the inputs
GetServerProfile(r) ==
  /\ pc[r] = "profile"
  /\ IF rq[r].caller = NoUser
       THEN Throw(r, MsgProfile, FALSE)
     ELSE IF rq[r].file_id = ""
       THEN /\ rq' = [rq EXCEPT ![r].bodyUsed = TRUE, ![r].error = MsgMissingParams,
                                ![r].timeoutId = clearTimeout(@)]
            /\ pc' = [pc EXCEPT ![r] = "catch"]
     ELSE IF rq[r].embeddingsProvider \notin {"openai", "local"}
       THEN /\ rq' = [rq EXCEPT ![r].bodyUsed = TRUE, ![r].error = MsgInvalidProvider,
                                ![r].timeoutId = clearTimeout(@)]
            /\ pc' = [pc EXCEPT ![r] = "catch"]
     ELSE /\ rq' = [rq EXCEPT ![r].bodyUsed = TRUE]
          /\ pc' = [pc EXCEPT ![r] = "metadata"]
  /\ UNCHANGED <<files, file_items, blob, resp, clock, NODE_ENV, driver, pdf>>

\* select * from files where id = file_id, then the ownership and size checks
ReadMetadata(r) ==
  /\ pc[r] = "metadata"
  /\ LET fid == rq[r].file_id IN
     IF fid \notin DOMAIN files
       THEN Throw(r, MsgMetadata, TRUE)
     ELSE IF files[fid].user_id # rq[r].caller
       THEN Throw(r, MsgUnauthorized, TRUE)
     ELSE IF files[fid].size > MAX_FILE_SIZE
       THEN Throw(r, MsgTooLarge, TRUE)
     ELSE /\ rq' = [rq EXCEPT ![r].fileMetadata = Some(files[fid])]
          /\ pc' = [pc EXCEPT ![r] = "chunks"]
  /\ UNCHANGED <<files, file_items, blob, resp, clock, NODE_ENV, driver, pdf>>

AlreadyProcessed ==
  [status |-> 200, message |-> "File already processed", error |-> NULL,
   statistics |-> Some([totalChunks |-> 0, totalTokens |-> 0, batchesProcessed |-> 0])]

\* select id from file_items where file_id = ... limit 1, the already
\* processed return and the check of the status read by ReadMetadata
SelectExistingChunks(r) ==
  /\ pc[r] = "chunks"
  /\ IF HasExistingChunks(rq[r].file_id)
       THEN /\ rq' = [rq EXCEPT ![r].timeoutId = clearTimeout(@)]
            /\ resp' = [resp EXCEPT ![r] = AlreadyProcessed]
            /\ pc' = [pc EXCEPT ![r] = "done"]
     ELSE IF IsProcessing(rq[r].fileMetadata[1])
       THEN /\ Throw(r, MsgConcurrent, TRUE)
            /\ UNCHANGED resp
     ELSE /\ pc' = [pc EXCEPT ![r] = "mark"]
          /\ UNCHANGED <<rq, resp>>
  /\ UNCHANGED <<files, file_items, blob, clock, NODE_ENV, driver, pdf>>

\* variant: a conditional update, applied only while the row is not processing
MarkProcessing_Conditional(r) ==
  /\ pc[r] = "mark"
  /\ files[rq[r].file_id].processing_status # "processing"
  /\ files' = [files EXCEPT ![rq[r].file_id] = ProcessingUpdate(@, clock)]
  /\ rq' = [rq EXCEPT ![r].writes = Append(@, Write("processing", TRUE))]
  /\ clock' = clock + 1
  /\ pc' = [pc EXCEPT ![r] = "download"]
  /\ UNCHANGED <<file_items, blob, resp, NODE_ENV, driver, pdf>>

\* update files set processing_status = 'processing', ... where id = file_id
\* (the result of the update is not inspected: a failed write goes unnoticed)
MarkProcessing(r) ==
  /\ pc[r] = "mark"
  /\ \E ok \in BOOLEAN :
       /\ files' = IF ok
                     THEN [files EXCEPT ![rq[r].file_id] = ProcessingUpdate(@, clock)]
                     ELSE files
       /\ rq' = [rq EXCEPT ![r].writes = Append(@, Write("processing", ok))]
  /\ clock' = clock + 1
  /\ pc' = [pc EXCEPT ![r] = "download"]
  /\ UNCHANGED <<file_items, blob, resp, NODE_ENV, driver, pdf>>

\* ------------------------------------------- main route: batch embedding
Min(a, b) == IF a < b THEN a ELSE b

\* chunks.reduce((acc, chunk) => acc + chunk.tokens, 0)
\* variant: a total that counts only the chunks that will be embedded
RECURSIVE SumTokens_SkipOversized(_)
SumTokens_SkipOversized(chunks) ==
  IF chunks = <<>> THEN 0
  ELSE (IF chunks[1].tokens > MAX_TOKENS_PER_REQUEST THEN 0 ELSE chunks[1].tokens)
       + SumTokens_SkipOversized(Tail(chunks))

RECURSIVE SumTokens(_)
SumTokens(chunks) ==
  IF chunks = <<>> THEN 0
  ELSE chunks[1].tokens + SumTokens(Tail(chunks))

\* chunks.slice(i, i + BATCH_SIZE)
BatchChunks(chunks, i) == SubSeq(chunks, i + 1, Min(i + BATCH_SIZE, Len(chunks)))

\* what the provider returns for one input string
Embedding(content) == <<"embedding", content>>

\* variant: the loop closes the open sub-batch as soon as a chunk would bring
\* it up to MAX_BATCH_TOKENS, not only when it would bring it over
RECURSIVE RunLoop_ClosesAtLimit(_, _)
RunLoop_ClosesAtLimit(bc, L) ==
  IF L.k > Len(bc) THEN L
  ELSE LET chunk == bc[L.k] IN
    IF chunk.tokens > MAX_TOKENS_PER_REQUEST
      THEN RunLoop_ClosesAtLimit(bc, [L EXCEPT !.batchEmbeddings = Append(@, None),
                                              !.k = @ + 1])
    ELSE IF /\ L.currentSubBatchTokens + chunk.tokens >= MAX_BATCH_TOKENS
            /\ Len(L.currentSubBatch) > 0
      THEN L
    ELSE RunLoop_ClosesAtLimit(bc, [L EXCEPT !.currentSubBatch = Append(@, chunk.content),
                                            !.currentSubBatchTokens = @ + chunk.tokens,
                                            !.k = @ + 1])

\* The for loop of processBatchEmbeddings (openai branch), run from index
\* L.k up to the next await of client.embeddings.create or to the loop's end.
RECURSIVE RunLoop(_, _)
RunLoop(bc, L) ==
  IF L.k > Len(bc) THEN L
  ELSE LET chunk == bc[L.k] IN
    IF chunk.tokens > MAX_TOKENS_PER_REQUEST
      THEN RunLoop(bc, [L EXCEPT !.batchEmbeddings = Append(@, None), !.k = @ + 1])
    ELSE IF /\ L.currentSubBatchTokens + chunk.tokens > MAX_BATCH_TOKENS
            /\ Len(L.currentSubBatch) > 0
      THEN L
    ELSE RunLoop(bc, [L EXCEPT !.currentSubBatch = Append(@, chunk.content),
                               !.currentSubBatchTokens = @ + chunk.tokens,
                               !.k = @ + 1])

\* entry of processBatchEmbeddings for the batch at offset i
EnterBatch(L, i) ==
  LET fresh == [L EXCEPT !.i = i, !.k = 1, !.batchEmbeddings = <<>>,
                         !.currentSubBatch = <<>>, !.currentSubBatchTokens = 0]
  IN IF L.embeddingsProvider = "openai"
       THEN RunLoop(BatchChunks(L.chunks, i), fresh)
       ELSE fresh

\* TRUE when processBatchEmbeddings has a provider call to await
CallPending(L) ==
  \/ L.embeddingsProvider = "local"
  \/ L.k <= Len(BatchChunks(L.chunks, L.i))
  \/ Len(L.currentSubBatch) > 0

AfterBatchEntry(L) == IF CallPending(L) THEN "embed" ELSE "upsert"

\* storage download, checkApiKey, the extension switch and the extractor:
\* everything between the mark-processing write and the first batch
Download(r) ==
  /\ pc[r] = "download"
  /\ \E downloaded \in BOOLEAN,
        hasKey \in IF rq[r].embeddingsProvider = "openai" THEN BOOLEAN ELSE {TRUE} :
       LET kind == blob[rq[r].file_id]
           ext == rq[r].fileMetadata[1].ext
       IN
       IF ~downloaded
         THEN Throw(r, MsgStorage, TRUE)
       ELSE IF rq[r].embeddingsProvider = "openai" /\ ~hasKey
         THEN Throw(r, MsgApiKey, FALSE)
       ELSE IF ext \notin SupportedExtensions
         THEN Throw(r, MsgUnsupported, FALSE)
       ELSE IF Len(kind.chunks) = 0
         THEN Throw(r, MsgNoChunks, FALSE)
       ELSE LET L == EnterBatch([rq[r] EXCEPT !.chunks = kind.chunks,
                                             !.totalChunks = Len(kind.chunks),
                                             !.totalTokens = SumTokens(kind.chunks)], 0)
            IN /\ rq' = [rq EXCEPT ![r] = L]
               /\ pc' = [pc EXCEPT ![r] = AfterBatchEntry(L)]
  /\ UNCHANGED <<files, file_items, blob, resp, clock, NODE_ENV, driver, pdf>>

\* await client.embeddings.create({input: currentSubBatch}) and the code up
\* to the next await
EmbeddingsCreate(r) ==
  /\ pc[r] = "embed"
  /\ rq[r].embeddingsProvider = "openai"
  /\ LET L == rq[r]
         bc == BatchChunks(L.chunks, L.i)
         call == [input |-> L.currentSubBatch, tokens |-> L.currentSubBatchTokens]
         pushed == [L EXCEPT !.batchEmbeddings =
                               @ \o [n \in 1..Len(L.currentSubBatch) |->
                                       Embedding(L.currentSubBatch[n])],
                             !.calls = Append(@, call)]
     IN \E outcome \in {"ok"} \cup ProviderErrors :
          IF outcome # "ok"
            THEN /\ rq' = [rq EXCEPT ![r].error = outcome, ![r].calls = Append(@, call)]
                 /\ pc' = [pc EXCEPT ![r] = "catch"]
          ELSE IF L.k <= Len(bc)
            THEN LET next == RunLoop(bc, [pushed EXCEPT
                                 !.currentSubBatch = <<bc[L.k].content>>,
                                 !.currentSubBatchTokens = bc[L.k].tokens,
                                 !.k = @ + 1])
                 IN /\ rq' = [rq EXCEPT ![r] = next]
                    /\ pc' = [pc EXCEPT ![r] = "embed"]
          ELSE /\ rq' = [rq EXCEPT ![r] = pushed]
               /\ pc' = [pc EXCEPT ![r] = "upsert"]
  /\ UNCHANGED <<files, file_items, blob, resp, clock, NODE_ENV, driver, pdf>>

\* The provider calls of request r that have been started and not yet
\* settled: the one awaited embeddings.create of the openai branch, or the
\* generateLocalEmbedding calls that batchChunks.map(async ...) has started
\* for every chunk of the batch before Promise.all is awaited.
InFlightCalls(r) ==
  IF pc[r] # "embed" THEN 0
  ELSE IF rq[r].embeddingsProvider = "local"
    THEN Len(BatchChunks(rq[r].chunks, rq[r].i))
  ELSE 1

\* the chunks of a batch whose local embedding may fail in one run
LocalFailures(n) == {{}, {1}, 1..n}

\* variant: the per-chunk try/catch is missing, one failed chunk rejects
\* Promise.all
LocalEmbeddings_Rejects(r) ==
  /\ pc[r] = "embed"
  /\ rq[r].embeddingsProvider = "local"
  /\ LET L == rq[r]
         bc == BatchChunks(L.chunks, L.i)
         calls == [n \in 1..Len(bc) |-> [input |-> <<bc[n].content>>, tokens |-> bc[n].tokens]]
     IN \E failed \in LocalFailures(Len(bc)) :
          IF failed # {}
            THEN /\ rq' = [rq EXCEPT ![r].error = MsgProviderConn, ![r].calls = @ \o calls]
                 /\ pc' = [pc EXCEPT ![r] = "catch"]
            ELSE /\ rq' = [rq EXCEPT
                             ![r].batchEmbeddings =
                                [n \in 1..Len(bc) |-> Embedding(bc[n].content)],
                             ![r].calls = @ \o calls]
                 /\ pc' = [pc EXCEPT ![r] = "upsert"]
  /\ UNCHANGED <<files, file_items, blob, resp, clock, NODE_ENV, driver, pdf>>

\* await Promise.all(batchChunks.map(generateLocalEmbedding)), a failed
\* chunk mapped to null
LocalEmbeddings(r) ==
  /\ pc[r] = "embed"
  /\ rq[r].embeddingsProvider = "local"
  /\ LET L == rq[r]
         bc == BatchChunks(L.chunks, L.i)
     IN \E failed \in LocalFailures(Len(bc)) :
          rq' = [rq EXCEPT
                   ![r].batchEmbeddings =
                      [n \in 1..Len(bc) |->
                         IF n \in failed THEN None ELSE Embedding(bc[n].content)],
                   ![r].calls = @ \o [n \in 1..Len(bc) |->
                                        [input |-> <<bc[n].content>>,
                                         tokens |-> bc[n].tokens]]]
  /\ pc' = [pc EXCEPT ![r] = "upsert"]
  /\ UNCHANGED <<files, file_items, blob, resp, clock, NODE_ENV, driver, pdf>>

\* batchEmbeddings[index] || null
At(embeddings, index) ==
  IF index <= Len(embeddings) THEN embeddings[index] ELSE None

\* batchChunks.map((chunk, index) => ({file_id, user_id, content, ...}))
FileItems(fid, uid, provider, bc, embeddings) ==
  [n \in 1..Len(bc) |->
     [ file_id |-> fid,
       user_id |-> uid,
       content |-> bc[n].content,
       tokens |-> bc[n].tokens,
       openai_embedding |-> IF provider = "openai" THEN At(embeddings, n) ELSE None,
       local_embedding |-> IF provider = "local" THEN At(embeddings, n) ELSE None ]]

\* await supabaseAdmin.from("file_items").upsert(file_items): rows carry no
\* id, so each is inserted; the result is not inspected. Then the next batch.
Upsert(r) ==
  /\ pc[r] = "upsert"
  /\ LET L == rq[r]
         bc == BatchChunks(L.chunks, L.i)
         rows == FileItems(L.file_id, L.caller, L.embeddingsProvider, bc,
                           L.batchEmbeddings)
     IN \E ok \in BOOLEAN :
          LET wrote == [L EXCEPT !.writes = Append(@, Write("file_items", ok))] IN
          /\ file_items' = IF ok THEN file_items \o rows ELSE file_items
          /\ IF L.i + BATCH_SIZE < Len(L.chunks)
               THEN LET next == EnterBatch(wrote, L.i + BATCH_SIZE)
                    IN /\ rq' = [rq EXCEPT ![r] = next]
                       /\ pc' = [pc EXCEPT ![r] = AfterBatchEntry(next)]
               ELSE /\ rq' = [rq EXCEPT ![r] = wrote]
                    /\ pc' = [pc EXCEPT ![r] = "finalize"]
  /\ UNCHANGED <<files, blob, resp, clock, NODE_ENV, driver, pdf>>

\* ------------------------------------------------ main route: finalize
EmbedSuccessful ==
  [status |-> 200, message |-> "Embed Successful", error |-> NULL, statistics |-> None]

\* Math.ceil(totalChunks / BATCH_SIZE)
BatchesProcessed(totalChunks) == (totalChunks + BATCH_SIZE - 1) \div BATCH_SIZE

\* the 200 response of the main route, with its statistics
EmbedSuccessfulWith(totalChunks, totalTokens) ==
  [EmbedSuccessful EXCEPT
     !.statistics = Some([totalChunks |-> totalChunks, totalTokens |-> totalTokens,
                          batchesProcessed |-> BatchesProcessed(totalChunks)])]

\* update files set tokens, processing_status = 'completed', ... and the
\* 200 response that follows it without a further await
FinalizeSuccess(r) ==
  /\ pc[r] = "finalize"
  /\ \E ok \in BOOLEAN :
       /\ files' = IF ok
                     THEN [files EXCEPT ![rq[r].file_id] =
                            CompletedUpdate(@, rq[r].totalTokens, clock)]
                     ELSE files
       /\ rq' = [rq EXCEPT ![r].writes = Append(@, Write("completed", ok)),
                           ![r].timeoutId = clearTimeout(@)]
  /\ clock' = clock + 1
  /\ resp' = [resp EXCEPT ![r] = EmbedSuccessfulWith(rq[r].totalChunks, rq[r].totalTokens)]
  /\ pc' = [pc EXCEPT ![r] = "done"]
  /\ UNCHANGED <<file_items, blob, NODE_ENV, driver, pdf>>

\* variant: the catch block uses the file_id the try block parsed
CatchFileId_Hoisted(r) == rq[r].file_id

\* The file_id the catch block obtains from `await req.formData()`: a body
\* that the try block has already read cannot be read again (formData()
\* rejects, the inner catch logs it), so no id is obtained then.
CatchFileId(r) == IF rq[r].bodyUsed THEN "" ELSE rq[r].file_id

\* the catch block without its inner try/catch and with the update's result
\* inspected: a finalize step that fails (the body cannot be read, the store
\* refuses the update) escapes the handler and the host answers a bare 500
Catch_NoInnerTry(r) ==
  /\ pc[r] = "catch"
  /\ LET msg == rq[r].error
         fid == CatchFileId(r)
     IN IF fid # ""
          THEN \E ok \in BOOLEAN :
                 /\ files' = IF ok /\ fid \in DOMAIN files
                               THEN [files EXCEPT ![fid] = FailedUpdate(@, msg, clock)]
                               ELSE files
                 /\ rq' = [rq EXCEPT ![r].bodyUsed = TRUE,
                                     ![r].timeoutId = clearTimeout(@),
                                     ![r].writes = Append(@, Write(errorStatus(msg), ok))]
                 /\ clock' = clock + 1
                 /\ resp' = [resp EXCEPT ![r] =
                               IF ok
                                 THEN [status |-> errorCode(msg),
                                       message |-> errorMessage(msg),
                                       error |-> IF NODE_ENV = "development"
                                                   THEN msg ELSE NULL,
                                       statistics |-> None]
                                 ELSE [status |-> 500, message |-> "",
                                       error |-> NULL, statistics |-> None]]
          ELSE /\ rq' = [rq EXCEPT ![r].bodyUsed = TRUE,
                                   ![r].timeoutId = clearTimeout(@)]
               /\ resp' = [resp EXCEPT ![r] =
                             [status |-> 500, message |-> "",
                              error |-> NULL, statistics |-> None]]
               /\ UNCHANGED <<files, clock>>
  /\ pc' = [pc EXCEPT ![r] = "done"]
  /\ UNCHANGED <<file_items, blob, NODE_ENV, driver, pdf>>

\* the catch block: failure-finalize write (best effort), error
\* categorisation and the error response
Catch(r) ==
  /\ pc[r] = "catch"
  /\ LET msg == rq[r].error
         fid == CatchFileId(r)
     IN /\ IF fid # ""
             THEN /\ \E ok \in BOOLEAN :
                       /\ files' = IF ok /\ fid \in DOMAIN files
                                     THEN [files EXCEPT ![fid] = FailedUpdate(@, msg, clock)]
                                     ELSE files
                       /\ rq' = [rq EXCEPT ![r].bodyUsed = TRUE,
                                           ![r].timeoutId = clearTimeout(@),
                                           ![r].writes = Append(@, Write(errorStatus(msg), ok))]
                  /\ clock' = clock + 1
             ELSE /\ rq' = [rq EXCEPT ![r].bodyUsed = TRUE,
                                      ![r].timeoutId = clearTimeout(@)]
                  /\ UNCHANGED <<files, clock>>
        /\ resp' = [resp EXCEPT ![r] =
                      [status |-> errorCode(msg),
                       message |-> errorMessage(msg),
                       error |-> IF NODE_ENV = "development" THEN msg ELSE NULL,
                       statistics |-> None]]
  /\ pc' = [pc EXCEPT ![r] = "done"]
  /\ UNCHANGED <<file_items, blob, NODE_ENV, driver, pdf>>

\* The 9 minute timer set at the top of POST fires while the request is in
\* flight. Its callback throws outside the handler's promise chain: an
\* uncaught exception, which the host either logs (the handler goes on
\* undisturbed) or dies of (every request in flight is lost unanswered).
TimerFires(r) ==
  /\ rq[r].route = "main"
  /\ InFlight(r)
  /\ rq[r].timeoutId = "armed"
  /\ rq' = [rq EXCEPT ![r].timeoutId = "fired"]
  /\ \E exits \in BOOLEAN :
       pc' = IF exits
               THEN [q \in Requests |-> IF InFlight(q) THEN "crashed" ELSE pc[q]]
               ELSE pc
  /\ UNCHANGED <<files, file_items, blob, resp, clock, NODE_ENV, driver, pdf>>

\* ------------------------------------------------------------ DOCX route
DocxChunkSeq(n) == [k \in 1..n |-> [content |-> 100 + k, tokens |-> CHUNK_SIZE]]

Embeddings(contents) == [n \in 1..Len(contents) |-> Embedding(contents[n])]

\* the batching loop of the DOCX route (openai branch), all provider calls
\* answered: the embeddings array it builds
RECURSIVE DocxLoop(_, _, _, _, _)
DocxLoop(chunks, k, currentBatch, currentBatchTokens, allEmbeddings) ==
  IF k > Len(chunks)
    THEN IF Len(currentBatch) > 0
           THEN allEmbeddings \o Embeddings(currentBatch)
           ELSE allEmbeddings
  ELSE LET chunk == chunks[k] IN
    IF chunk.tokens > MAX_TOKENS_PER_REQUEST
      THEN DocxLoop(chunks, k + 1, currentBatch, currentBatchTokens,
                    Append(allEmbeddings, None))
    ELSE LET flush == /\ currentBatchTokens + chunk.tokens > MAX_BATCH_TOKENS
                      /\ Len(currentBatch) > 0
             embs == IF flush THEN allEmbeddings \o Embeddings(currentBatch)
                     ELSE allEmbeddings
             batch == IF flush THEN <<chunk.content>>
                      ELSE Append(currentBatch, chunk.content)
             toks == IF flush THEN chunk.tokens
                     ELSE currentBatchTokens + chunk.tokens
         IN IF toks > MAX_BATCH_TOKENS
              THEN DocxLoop(chunks, k + 1, <<>>, 0, embs \o Embeddings(batch))
              ELSE DocxLoop(chunks, k + 1, batch, toks, embs)

\* A client issues POST /api/retrieval/process/docx with a JSON body
DocxRequest(r) ==
  /\ pc[r] = "idle"
  /\ \A q \in Requests : q < r => pc[q] # "idle"
  /\ \E in \in DocxInputs :
       rq' = [rq EXCEPT ![r].route = "docx", ![r].caller = in.caller,
                        ![r].file_id = in.fileId,
                        ![r].embeddingsProvider = in.embeddingsProvider,
                        ![r].fileExtension = in.fileExtension,
                        ![r].text = DocxChunkSeq(in.text), ![r].bodyUsed = TRUE]
  /\ pc' = [pc EXCEPT ![r] = "docx"]
  /\ UNCHANGED <<files, file_items, blob, resp, clock, NODE_ENV, driver, pdf>>

DocxError ==
  [status |-> 500, message |-> "An unexpected error occurred", error |-> NULL,
   statistics |-> None]

DocxRejected(message) ==
  [status |-> 400, message |-> message, error |-> NULL, statistics |-> None]

\* the DOCX handler up to its first record-store write: profile, API key,
\* extension switch, processDocX and the embeddings
DocxProcess(r) ==
  /\ pc[r] = "docx"
  /\ \E hasKey \in IF rq[r].embeddingsProvider = "openai" THEN BOOLEAN ELSE {TRUE},
        embedded \in IF rq[r].embeddingsProvider = "openai" THEN BOOLEAN ELSE {TRUE},
        failed \in IF rq[r].embeddingsProvider = "local"
                     THEN LocalFailures(Len(rq[r].text)) ELSE {{}} :
       LET L == rq[r]
           reply(x) == /\ resp' = [resp EXCEPT ![r] = x]
                       /\ pc' = [pc EXCEPT ![r] = "done"]
                       /\ UNCHANGED rq
       IN
       IF L.caller = NoUser THEN reply(DocxError)
       ELSE IF L.embeddingsProvider = "openai" /\ ~hasKey THEN reply(DocxError)
       ELSE IF L.fileExtension # "docx" THEN reply(DocxRejected(MsgUnsupported))
       ELSE IF Len(L.text) = 0 THEN reply(DocxRejected(MsgNoChunks))
       ELSE IF L.embeddingsProvider = "openai" /\ ~embedded THEN reply(DocxError)
       ELSE /\ rq' = [rq EXCEPT
                        ![r].chunks = L.text,
                        ![r].totalTokens = SumTokens(L.text),
                        ![r].batchEmbeddings =
                           IF L.embeddingsProvider = "openai"
                             THEN DocxLoop(L.text, 1, <<>>, 0, <<>>)
                             ELSE [n \in 1..Len(L.text) |->
                                     IF n \in failed THEN None
                                     ELSE Embedding(L.text[n].content)]]
            /\ pc' = [pc EXCEPT ![r] = "docx_upsert"]
            /\ UNCHANGED resp
  /\ UNCHANGED <<files, file_items, blob, clock, NODE_ENV, driver, pdf>>

\* await supabaseAdmin.from("file_items").upsert(file_items)
DocxUpsert(r) ==
  /\ pc[r] = "docx_upsert"
  /\ LET L == rq[r]
         rows == FileItems(L.file_id, L.caller, L.embeddingsProvider, L.chunks,
                           L.batchEmbeddings)
     IN \E ok \in BOOLEAN :
          /\ file_items' = IF ok THEN file_items \o rows ELSE file_items
          /\ rq' = [rq EXCEPT ![r].writes = Append(@, Write("file_items", ok))]
  /\ pc' = [pc EXCEPT ![r] = "docx_tokens"]
  /\ UNCHANGED <<files, blob, resp, clock, NODE_ENV, driver, pdf>>

\* update files set tokens = totalTokens where id = fileId, then the response
DocxUpdateTokens(r) ==
  /\ pc[r] = "docx_tokens"
  /\ \E ok \in BOOLEAN :
       /\ files' = IF ok THEN [files EXCEPT ![rq[r].file_id].tokens = rq[r].totalTokens]
                   ELSE files
       /\ rq' = [rq EXCEPT ![r].writes = Append(@, Write("tokens", ok))]
  /\ resp' = [resp EXCEPT ![r] = EmbedSuccessful]
  /\ pc' = [pc EXCEPT ![r] = "done"]
  /\ UNCHANGED <<file_items, blob, clock, NODE_ENV, driver, pdf>>

\* ------------------------------------------- browser: upload and driver
maxRetries == 3
baseDelay == 2000
StartDelay == 100
\* time a request that is answered (or fails in the network) takes, ms
Latency == 1000

\* retryCount === 0 ? 10 * 60 * 1000 : 5 * 60 * 1000
timeoutDuration(retryCount) == IF retryCount = 0 THEN 10 * 60 * 1000 ELSE 5 * 60 * 1000

\* the status codes the main route answers with (its error code chain, and
\* 504 from the hosting platform when the function is cut off)
ResponseStatuses == {200, 403, 404, 408, 413, 500, 503, 504}

\* What `await fetch("/api/retrieval/process", {signal})` can end with: a
\* response (the platform's 504 page is not JSON), the abort by the deadline
\* timer, or a network failure with the message the browser gives it.
FetchOutcomes ==
  { [kind |-> "response", status |-> st, json |-> (st # 504),
     name |-> "", message |-> ""] : st \in ResponseStatuses }
  \cup { [kind |-> "error", status |-> 0, json |-> FALSE,
          name |-> "AbortError", message |-> MsgAborted] }
  \cup { [kind |-> "error", status |-> 0, json |-> FALSE,
          name |-> "TypeError", message |-> m] :
            m \in {MsgFailedToFetch, MsgNetworkError, MsgLoadFailed} }

\* what `await fetch("/api/retrieval/process/docx")` can end with (no signal)
DocxFetchOutcomes ==
  { [kind |-> "response", status |-> st, json |-> TRUE,
     name |-> "", message |-> ""] : st \in {200, 400, 500} }
  \cup { [kind |-> "error", status |-> 0, json |-> FALSE,
          name |-> "TypeError", message |-> MsgFailedToFetch] }

\* the error that reaches the catch block of processFileInBackground, if any:
\* what fetch threw, or the SyntaxError of JSON.parse on a non-JSON body
Thrown(o) ==
  IF o.kind = "error" THEN [name |-> o.name, message |-> o.message]
  ELSE IF o.status # 200 /\ ~o.json
    THEN [name |-> "SyntaxError", message |-> MsgUnexpectedToken]
  ELSE [name |-> "", message |-> ""]

\* variant: every thrown error is retried while retries remain
shouldRetry_AnyError(retryCount, error) == retryCount < maxRetries

\* const shouldRetry = retryCount < maxRetries && (...)
shouldRetry(retryCount, error) ==
  /\ retryCount < maxRetries
  /\ \/ error.name = "AbortError"
     \/ Includes(error.message, "network")
     \/ Includes(error.message, "fetch")
     \/ Includes(error.message, "ECONNRESET")
     \/ Includes(error.message, "ETIMEDOUT")

\* variant: a constant delay
delay_Constant(retryCount) == baseDelay

\* const delay = baseDelay * Math.pow(2, retryCount)
delay(retryCount) == baseDelay * 2^retryCount

\* the toast of the final error handling
FinalToast(error) ==
  IF error.name = "AbortError" THEN "final: timed out"
  ELSE IF Includes(error.message, "network") \/ Includes(error.message, "fetch")
    THEN "final: network error"
  ELSE IF Includes(error.message, "token") \/ Includes(error.message, "limit")
    THEN "final: too large"
  ELSE "final: failed"

\* history entry of a processing request: who awaits it, when it was issued,
\* when it ended (-1 while in flight) and how
Pending == [kind |-> "pending", status |-> 0, json |-> FALSE, name |-> "", message |-> ""]

\* (timeoutId: the attempt's deadline timer, which only processFileInBackground
\* sets: "armed" by setTimeout, "none" for the request of createDocXFile)
Attempt(by, retryCount, start) ==
  [by |-> by, retryCount |-> retryCount, start |-> start, end |-> -1, outcome |-> Pending,
   timeoutId |-> IF by = "background" THEN "armed" ELSE "none"]

InFlightAttempts == {n \in 1..Len(driver.attempts) : driver.attempts[n].end = -1}

\* The last attempt ends with outcome o. Its deadline timer has fired when
\* the outcome is the abort; clearTimeout(timeoutId) is the statement after
\* `await fetch`, reached only when fetch returned a response.
Ended(attempts, now, o) ==
  [attempts EXCEPT ![Len(attempts)].end = now, ![Len(attempts)].outcome = o,
                   ![Len(attempts)].timeoutId =
                      IF @ = "none" THEN "none"
                      ELSE IF o.name = "AbortError" THEN "fired"
                      ELSE IF o.kind = "response" THEN "cleared"
                      ELSE @]

\* the file a user picks for upload
UploadKind(ext) == [ext |-> ext, size |-> driver.size, chunks |-> ChunkSeq(1, CHUNK_SIZE)]

\* supabase.from("files").insert([fileRecord]) and createFileWorkspace; an
\* error of either is thrown to the caller of the upload
InsertFile ==
  /\ driver.upc = "insert"
  /\ \E id \in FileIds \ DOMAIN files, ok \in BOOLEAN :
       IF ok
         THEN /\ files' = [f \in DOMAIN files \cup {id} |->
                             IF f = id
                               THEN NewFileRow("u1", driver.name, UploadKind(driver.ext))
                               ELSE files[f]]
              /\ driver' = [driver EXCEPT !.fileId = id, !.upc = "upload",
                                          !.steps = Append(@, "insert")]
         ELSE /\ driver' = [driver EXCEPT !.upc = "threw"]
              /\ UNCHANGED files
  /\ UNCHANGED <<file_items, blob, rq, pc, resp, clock, NODE_ENV, pdf>>

\* uploadFile: the size check, then the upsert upload under the path made of
\* the user id and the record's name; an error is thrown to the caller
UploadFile ==
  /\ driver.upc = "upload"
  /\ \E ok \in BOOLEAN :
       IF driver.size > SIZE_LIMIT \/ ~ok
         THEN /\ driver' = [driver EXCEPT !.upc = "threw"]
              /\ UNCHANGED blob
         ELSE /\ blob' = [f \in DOMAIN blob \cup {driver.fileId} |->
                            IF f = driver.fileId THEN UploadKind(driver.ext) ELSE blob[f]]
              /\ driver' = [driver EXCEPT
                              !.upc = "update",
                              !.filePath = Some(filePath("u1", driver.name)),
                              !.steps = Append(@, "upload")]
  /\ UNCHANGED <<files, file_items, rq, pc, resp, clock, NODE_ENV, pdf>>

\* variant: the error of the path update is dropped and the upload goes on
UpdateFile_IgnoresError ==
  /\ driver.upc = "update"
  /\ \E ok \in BOOLEAN :
       /\ files' = IF ok /\ driver.fileId \in DOMAIN files
                     THEN [files EXCEPT ![driver.fileId].file_path = driver.filePath]
                     ELSE files
       /\ driver' =
            LET updated == IF ok THEN [driver EXCEPT !.steps = Append(@, "update")]
                           ELSE driver
            IN IF driver.ext = "docx"
                 THEN [updated EXCEPT
                         !.upc = "fetch",
                         !.attempts = Append(@, Attempt("upload", 0, driver.now))]
                 ELSE [updated EXCEPT
                         !.upc = "get", !.bpc = "timer",
                         !.timerAt = driver.now + StartDelay]
  /\ UNCHANGED <<file_items, blob, rq, pc, resp, clock, NODE_ENV, pdf>>

\* await updateFile(createdFile.id, {file_path: filePath}), which throws on
\* an error; then createFile arms the 100 ms timer of the background job and
\* awaits getFileById, while createDocXFile issues the DOCX processing
\* request and awaits its response
UpdateFile ==
  /\ driver.upc = "update"
  /\ \E ok \in BOOLEAN :
       IF ~ok
         THEN /\ driver' = [driver EXCEPT !.upc = "threw"]
              /\ UNCHANGED files
         ELSE /\ files' = [files EXCEPT ![driver.fileId].file_path = driver.filePath]
              /\ driver' =
                   IF driver.ext = "docx"
                     THEN [driver EXCEPT
                             !.upc = "fetch",
                             !.steps = Append(@, "update"),
                             !.attempts = Append(@, Attempt("upload", 0, driver.now))]
                     ELSE [driver EXCEPT
                             !.upc = "get", !.bpc = "timer",
                             !.steps = Append(@, "update"),
                             !.timerAt = driver.now + StartDelay]
  /\ UNCHANGED <<file_items, blob, rq, pc, resp, clock, NODE_ENV, pdf>>

\* const fetchedFile = await getFileById(createdFile.id); return fetchedFile
GetFileById ==
  /\ driver.upc = "get"
  /\ driver' = [driver EXCEPT !.upc = IF driver.fileId \in DOMAIN files
                                        THEN "returned" ELSE "threw"]
  /\ UNCHANGED <<files, file_items, blob, rq, pc, resp, clock, NODE_ENV, pdf>>

\* variant: the timer is an interval, it stays armed after it fired
StartAttempt_Interval ==
  /\ driver.bpc = "timer"
  /\ Len(driver.attempts) < maxRetries + 2
  /\ LET t == IF driver.timerAt > driver.now THEN driver.timerAt ELSE driver.now IN
     driver' = [driver EXCEPT
                  !.now = t, !.timerAt = t + StartDelay,
                  !.attempts = Append(@, Attempt("background", driver.retryCount, t))]
  /\ UNCHANGED <<files, file_items, blob, rq, pc, resp, clock, NODE_ENV, pdf>>

\* The pending setTimeout fires and calls processFileInBackground(retryCount):
\* the deadline timer is armed and the processing request is issued.
StartAttempt ==
  /\ driver.bpc = "timer"
  /\ LET t == IF driver.timerAt > driver.now THEN driver.timerAt ELSE driver.now IN
     driver' = [driver EXCEPT
                  !.now = t, !.bpc = "fetch",
                  !.attempts = Append(@, Attempt("background", driver.retryCount, t))]
  /\ UNCHANGED <<files, file_items, blob, rq, pc, resp, clock, NODE_ENV, pdf>>

\* `await fetch(...)` of processFileInBackground ends, and the code up to the
\* end of the call: the toasts, and the setTimeout of the next attempt
AttemptEnds ==
  /\ driver.bpc = "fetch"
  /\ \E o \in FetchOutcomes :
       LET a == driver.attempts[Len(driver.attempts)]
           t == a.start + (IF o.name = "AbortError"
                             THEN timeoutDuration(driver.retryCount) ELSE Latency)
           error == Thrown(o)
           ended == [driver EXCEPT !.now = t, !.attempts = Ended(@, t, o)]
       IN
       driver' =
         IF error.name = ""
           THEN [ended EXCEPT
                   !.bpc = "done",
                   !.toasts = Append(@, IF o.status = 200 THEN "completed"
                                        ELSE "processing failed")]
         ELSE IF shouldRetry(driver.retryCount, error)
           THEN [ended EXCEPT
                   !.bpc = "timer",
                   !.timerAt = t + delay(driver.retryCount),
                   !.retryCount = @ + 1,
                   !.toasts = Append(@, "retrying")]
         ELSE [ended EXCEPT !.bpc = "done", !.toasts = Append(@, FinalToast(error))]
  /\ UNCHANGED <<files, file_items, blob, rq, pc, resp, clock, NODE_ENV, pdf>>

\* `await fetch("/api/retrieval/process/docx")` of createDocXFile ends: a
\* thrown error leaves the function; a response that is not ok is reported
\* and followed by deleteFile
DocxFetchEnds ==
  /\ driver.upc = "fetch"
  /\ \E o \in DocxFetchOutcomes :
       LET t == driver.now + Latency
           ended == [driver EXCEPT !.now = t, !.attempts = Ended(@, t, o)]
       IN
       driver' =
         IF o.kind = "error" THEN [ended EXCEPT !.upc = "threw"]
         ELSE IF o.status # 200
           THEN [ended EXCEPT !.upc = "delete",
                              !.toasts = Append(@, "processing failed")]
         ELSE [ended EXCEPT !.upc = "get"]
  /\ UNCHANGED <<files, file_items, blob, rq, pc, resp, clock, NODE_ENV, pdf>>

\* await deleteFile(createdFile.id)
DeleteFile ==
  /\ driver.upc = "delete"
  /\ \E ok \in BOOLEAN :
       IF ok
         THEN /\ files' = [f \in DOMAIN files \ {driver.fileId} |-> files[f]]
              /\ driver' = [driver EXCEPT !.upc = "get"]
         ELSE /\ driver' = [driver EXCEPT !.upc = "threw"]
              /\ UNCHANGED files
  /\ UNCHANGED <<file_items, blob, rq, pc, resp, clock, NODE_ENV, pdf>>

\* the names the user's files can have
Names == {"report", "notes"}

\* The files uploaded before: none, or one file of some user under some name,
\* its record "f0" carrying its storage path.
PriorUploads ==
  {<<>>} \cup { <<NewFileRow(u, n, [ext |-> "txt", size |-> 1024])>> :
                  u \in Users, n \in Names }

\* One upload (createFileBasedOnExtension) by user u1 against a record store
\* that holds the files uploaded before
DriverInit ==
  /\ \E prior \in PriorUploads :
       LET ids == IF prior = <<>> THEN {} ELSE {"f0"} IN
       /\ files = [f \in ids |-> Uploaded(prior[1])]
       /\ blob = [f \in ids |->
                    [ext |-> "txt", size |-> 1024, chunks |-> ChunkSeq(1, CHUNK_SIZE)]]
  /\ file_items = <<>>
  /\ rq = [r \in Requests |-> IdleRequest]
  /\ pc = [r \in Requests |-> "idle"]
  /\ resp = [r \in Requests |-> NoResponse]
  /\ clock = 1
  /\ NODE_ENV = "production"
  /\ pdf = IdlePdf
  /\ \E ext \in {"txt", "docx"}, name \in Names, size \in {1024, SIZE_LIMIT + 1} :
       driver = [IdleDriver EXCEPT !.ext = ext, !.name = name, !.size = size,
                                   !.upc = "insert"]

DriverNext ==
  \/ InsertFile
  \/ UploadFile
  \/ UpdateFile
  \/ GetFileById
  \/ StartAttempt
  \/ AttemptEnds
  \/ DocxFetchEnds
  \/ DeleteFile

DriverSpec == DriverInit /\ [][DriverNext]_vars

\* ------------------------------------------ one ingestion job, any chunks
MaxBatches == 3

\* token counts of a chunk: two that fit a sub-batch together, one above
\* MAX_BATCH_TOKENS that a request still takes, one above MAX_TOKENS_PER_REQUEST
TokenCounts == {100000, 150000, MAX_BATCH_TOKENS + 10000, MAX_TOKENS_PER_REQUEST + 1}

\* the chunk sequences an extractor hands to the job: every sequence of up to
\* MaxChunks chunks over TokenCounts, and sequences of ordinary chunks that
\* fill one to MaxBatches - 1 batches, with and without one chunk more
JobChunkSeqs ==
  UNION { { [k \in 1..m |-> [content |-> k, tokens |-> ts[k]]] :
              ts \in [1..m -> TokenCounts] } : m \in 1..MaxChunks }
  \cup { ChunkSeq(b * BATCH_SIZE + more, CHUNK_SIZE) :
           b \in 1..(MaxBatches - 1), more \in {0, 1} }

JobKinds == { [ext |-> "txt", size |-> 1024, chunks |-> cs] : cs \in JobChunkSeqs }

JobInit ==
  /\ driver = IdleDriver
  /\ pdf = IdlePdf
  /\ \E kind \in JobKinds :
       /\ files = [f \in FileIds |-> Uploaded(NewFileRow("u1", f, kind))]
       /\ blob = [f \in FileIds |-> kind]
  /\ file_items = <<>>
  /\ rq = [r \in Requests |-> IdleRequest]
  /\ pc = [r \in Requests |-> "idle"]
  /\ resp = [r \in Requests |-> NoResponse]
  /\ clock = 1
  /\ NODE_ENV \in {"development", "production"}

\* one request to the main route, from its arrival to its answer
JobNext ==
  \/ Request(1)
  \/ GetServerProfile(1)
  \/ ReadMetadata(1)
  \/ SelectExistingChunks(1)
  \/ MarkProcessing(1)
  \/ Download(1)
  \/ EmbeddingsCreate(1)
  \/ LocalEmbeddings(1)
  \/ Upsert(1)
  \/ FinalizeSuccess(1)
  \/ Catch(1)
  \/ TimerFires(1)

JobSpec == JobInit /\ [][JobNext]_vars

\* ------------------------------------------------------ the PDF extractor
MaxPages == 3

\* How dense a text is under the tokenizer, in tokens per 4 characters:
\* English prose (about 4 characters per token), 1 token per character, and
\* scripts the vocabulary covers byte by byte (3 tokens per character).
Densities == {1, 4, 12}

\* The pages PDFLoader can yield: empty or whitespace-only ones, and text of
\* some length in characters and some density.
BlankPages == { [chars |-> c, density |-> 1, blank |-> TRUE] : c \in {0, 10} }

TextPages ==
  { [chars |-> c, density |-> d, blank |-> FALSE] :
      c \in {1000, 8000, 9000}, d \in Densities }

Documents == UNION { [1..n -> BlankPages \cup TextPages] : n \in 1..MaxPages }

\* encode(text).length for a text of `chars` characters of the given density
encode(chars, density) == (chars * density + 3) \div 4

\* new RecursiveCharacterTextSplitter({chunkSize: CHUNK_SIZE, chunkOverlap:
\* CHUNK_OVERLAP}).createDocuments([pageContent]): the splitter measures in
\* characters (its default length function is the string's length); pieces of
\* at most chunkSize characters, each starting chunkOverlap characters before
\* the end of the one before it.
RECURSIVE createDocuments(_, _)
createDocuments(start, chars) ==
  IF chars <= CHUNK_SIZE
    THEN <<[start |-> start, chars |-> chars]>>
    ELSE <<[start |-> start, chars |-> CHUNK_SIZE]>>
         \o createDocuments(start + CHUNK_SIZE - CHUNK_OVERLAP,
                            chars - (CHUNK_SIZE - CHUNK_OVERLAP))

\* the page the loop of processPdf is at
PageAt == pdf.docs[pdf.pageIndex]

InLoop == pdf.state = "loop" /\ pdf.pageIndex <= Len(pdf.docs)

\* variant: an empty page is not skipped, it is pushed as a chunk of its own
SkipEmptyPage_PushesPage ==
  /\ InLoop
  /\ PageAt.blank
  /\ pdf' = [pdf EXCEPT
               !.chunks = Append(@, [page |-> pdf.pageIndex, start |-> 0,
                                     chars |-> PageAt.chars,
                                     tokens |-> encode(PageAt.chars, PageAt.density)]),
               !.pageIndex = @ + 1]
  /\ UNCHANGED <<files, file_items, blob, rq, pc, resp, clock, NODE_ENV, driver>>

\* if (!pageContent.trim()) continue
SkipEmptyPage ==
  /\ InLoop
  /\ PageAt.blank
  /\ pdf' = [pdf EXCEPT !.pageIndex = @ + 1]
  /\ UNCHANGED <<files, file_items, blob, rq, pc, resp, clock, NODE_ENV, driver>>

\* pageTokens <= CHUNK_SIZE: the page is one chunk
PushWholePage ==
  /\ InLoop
  /\ ~PageAt.blank
  /\ LET pageTokens == encode(PageAt.chars, PageAt.density) IN
       /\ pageTokens <= CHUNK_SIZE
       /\ pdf' = [pdf EXCEPT
                    !.chunks = Append(@, [page |-> pdf.pageIndex, start |-> 0,
                                          chars |-> PageAt.chars,
                                          tokens |-> pageTokens]),
                    !.pageIndex = @ + 1]
  /\ UNCHANGED <<files, file_items, blob, rq, pc, resp, clock, NODE_ENV, driver>>

\* the else branch: the page is split and each piece pushed with its own
\* token count
SplitPage ==
  /\ InLoop
  /\ ~PageAt.blank
  /\ encode(PageAt.chars, PageAt.density) > CHUNK_SIZE
  /\ LET splitDocs == createDocuments(0, PageAt.chars) IN
       pdf' = [pdf EXCEPT
                 !.chunks = @ \o [n \in 1..Len(splitDocs) |->
                                    [page |-> pdf.pageIndex,
                                     start |-> splitDocs[n].start,
                                     chars |-> splitDocs[n].chars,
                                     tokens |-> encode(splitDocs[n].chars,
                                                       PageAt.density)]],
                 !.pageIndex = @ + 1]
  /\ UNCHANGED <<files, file_items, blob, rq, pc, resp, clock, NODE_ENV, driver>>

\* return chunks
ReturnChunks ==
  /\ pdf.state = "loop"
  /\ pdf.pageIndex > Len(pdf.docs)
  /\ pdf' = [pdf EXCEPT !.state = "returned"]
  /\ UNCHANGED <<files, file_items, blob, rq, pc, resp, clock, NODE_ENV, driver>>

\* processPdf is called on a loaded document
PdfInit ==
  /\ files = [f \in {} |-> 0]
  /\ blob = [f \in {} |-> 0]
  /\ file_items = <<>>
  /\ rq = [r \in Requests |-> IdleRequest]
  /\ pc = [r \in Requests |-> "idle"]
  /\ resp = [r \in Requests |-> NoResponse]
  /\ clock = 1
  /\ NODE_ENV = "production"
  /\ driver = IdleDriver
  /\ \E docs \in Documents :
       pdf = [docs |-> docs, pageIndex |-> 1, chunks |-> <<>>, state |-> "loop"]

PdfNext ==
  \/ SkipEmptyPage
  \/ PushWholePage
  \/ SplitPage
  \/ ReturnChunks

PdfSpec == PdfInit /\ [][PdfNext]_vars

\* ------------------------------------------------------------------ Next
Next ==
  \E r \in Requests :
    \/ Request(r)
    \/ GetServerProfile(r)
    \/ ReadMetadata(r)
    \/ SelectExistingChunks(r)
    \/ MarkProcessing(r)
    \/ Download(r)
    \/ EmbeddingsCreate(r)
    \/ LocalEmbeddings(r)
    \/ Upsert(r)
    \/ FinalizeSuccess(r)
    \/ Catch(r)
    \/ TimerFires(r)
    \/ DocxRequest(r)
    \/ DocxProcess(r)
    \/ DocxUpsert(r)
    \/ DocxUpdateTokens(r)

Spec == Init /\ [][Next]_vars

\* ---------------------------------------------------------- properties
PostMark == {"download", "embed", "upsert", "finalize"}

AllWritesOk(r) == \A n \in 1..Len(rq[r].writes) : rq[r].writes[n].ok

Wrote(r, op) == \E n \in 1..Len(rq[r].writes) :
                  rq[r].writes[n].op = op /\ rq[r].writes[n].ok

Alone(r) == \A q \in Requests \ {r} : pc[q] = "idle"

OnFile(r) == rq[r].route = "main" /\ rq[r].file_id \in DOMAIN files

\* C1: an attempt whose success-finalize write is applied ends, at the moment
\* it answers, with the file record completed, processing_error null,
\* processing_completed_at set and the token total set, and answers 200.
C1_SuccessEndsCompleted ==
  [][\A r \in Requests :
       (pc[r] = "finalize" /\ pc'[r] = "done"
          /\ rq'[r].writes[Len(rq'[r].writes)].ok)
       => LET row == files'[rq[r].file_id] IN
            /\ row.processing_status = "completed"
            /\ row.processing_error = NULL
            /\ row.processing_completed_at # None
            /\ row.tokens = rq[r].totalTokens
            /\ row.tokens > 0
            /\ resp'[r] = EmbedSuccessfulWith(rq[r].totalChunks, rq[r].totalTokens)]_vars

\* C1 witness: an attempt that read the file as pending, had every write
\* applied and answered "Embed Successful", the record being completed
C1_Witness ==
  \E r \in Requests :
    /\ pc[r] = "done" /\ OnFile(r)
    /\ resp[r] = EmbedSuccessfulWith(rq[r].totalChunks, rq[r].totalTokens)
    /\ AllWritesOk(r)
    /\ rq[r].fileMetadata[1].processing_status = "pending"
    /\ files[rq[r].file_id].processing_status = "completed"
    /\ files[rq[r].file_id].processing_error = NULL
    /\ files[rq[r].file_id].tokens > 0

\* C2: an attempt that failed for a reason other than deadline expiry
\* (download failure, missing credential, extraction error, empty result,
\* remote embedding failure) and has answered leaves the file failed with a
\* non-null processing_error, never processing.
C2_FailureEndsFailed ==
  \A r \in Requests :
    ( /\ pc[r] = "done" /\ OnFile(r) /\ Alone(r) /\ AllWritesOk(r)
      /\ rq[r].error \in {MsgStorage, MsgApiKey, MsgUnsupported, MsgNoChunks,
                          MsgProviderConn} )
    => /\ files[rq[r].file_id].processing_status = "failed"
       /\ files[rq[r].file_id].processing_error # NULL

\* C3: an attempt whose 9 minute deadline expired while it was running ends
\* through the failure path: status timeout, non-null processing_error, a 408
\* response.
C3_DeadlineEndsTimeout ==
  \A r \in Requests :
    ( /\ rq[r].timeoutId = "fired" /\ pc[r] \in {"done", "crashed"}
      /\ OnFile(r) /\ Alone(r) /\ Wrote(r, "processing") )
    => /\ resp[r].status = 408
       /\ files[rq[r].file_id].processing_status = "timeout"
       /\ files[rq[r].file_id].processing_error # NULL

C6_UnsupportedLeavesStatus ==
  \A r \in Requests :
    ( /\ pc[r] = "done" /\ OnFile(r) /\ Alone(r) /\ AllWritesOk(r)
      /\ rq[r].error = MsgUnsupported )
    => /\ rq[r].writes = <<>>
       /\ files[rq[r].file_id].processing_status =
            rq[r].fileMetadata[1].processing_status

\* C7: no request of an authenticated caller, on either route, has a write
\* applied for a file whose owner is another user.
C7_OnlyOwnersFileWritten ==
  \A r \in Requests :
    ( /\ rq[r].caller \in Users
      /\ rq[r].file_id \in DOMAIN files
      /\ files[rq[r].file_id].user_id # rq[r].caller )
    => ~ \E n \in 1..Len(rq[r].writes) : rq[r].writes[n].ok

\* C8: processing_error is non-null only if processing_status is failed or
\* timeout.
C8_ErrorOnlyWhenFailed ==
  \A f \in FileIds :
    files[f].processing_error # NULL
    => files[f].processing_status \in {"failed", "timeout"}

\* C8 witness: a file record with a non-null processing_error
C8_Witness ==
  \E f \in FileIds :
    files[f].processing_error # NULL /\ files[f].processing_status = "failed"

\* C9 (as claimed): the mark-processing write is applied only while the
\* file's status is pending, failed or timeout.
C9_StartsOnlyFromRestartable ==
  [][\A r \in Requests :
       (pc[r] = "mark" /\ pc'[r] = "download" /\ files' # files)
       => files[rq[r].file_id].processing_status \in {"pending", "failed", "timeout"}]_vars

\* C9 (amended): an attempt passes admission only when its chunk query finds no
\* row and the status in the metadata it read is not processing, and the
\* mark-processing write is issued only by an attempt that passed admission so.
C9_StartsOnlyIfSnapshotNotProcessing ==
  [][\A r \in Requests :
       /\ (pc[r] = "chunks" /\ pc'[r] = "mark")
          => /\ RowsOf(rq[r].file_id) = {}
             /\ rq[r].fileMetadata[1].processing_status # "processing"
       /\ (Len(rq'[r].writes) > Len(rq[r].writes)
             /\ rq'[r].writes[Len(rq'[r].writes)].op = "processing")
          => /\ pc[r] = "mark"
             /\ rq[r].fileMetadata[1].processing_status # "processing"]_vars

\* C9 witness: an attempt that started from a terminal failure state
C9_Witness ==
  \E r \in Requests :
    /\ OnFile(r) /\ Wrote(r, "processing")
    /\ rq[r].fileMetadata[1].processing_status = "failed"

\* C10: the status flag is no lock: while one attempt that passed admission
\* has the file marked processing, a second request that passed admission for
\* the same file can still perform its own mark-processing write.
C10_StatusFlagIsNoLock ==
  \A r, q \in Requests :
    ( /\ r # q /\ OnFile(r) /\ rq[q].file_id = rq[r].file_id
      /\ pc[r] \in PostMark /\ pc[q] = "mark"
      /\ files[rq[r].file_id].processing_status = "processing" )
    => ENABLED MarkProcessing(q)

\* C10 witness: two requests for the same file that both passed admission,
\* both wrote status processing and are both running the job
C10_Witness ==
  \E r, q \in Requests :
    /\ r # q /\ OnFile(r) /\ OnFile(q) /\ rq[q].file_id = rq[r].file_id
    /\ pc[r] \in PostMark /\ pc[q] \in PostMark
    /\ Wrote(r, "processing") /\ Wrote(q, "processing")
    /\ files[rq[r].file_id].processing_status = "processing"

\* ------------------------------------------------ properties: the driver
Attempts == driver.attempts

NetworkMessages == {MsgFailedToFetch, MsgNetworkError, MsgLoadFailed}

AllTimedOut == \A n \in 1..Len(Attempts) : Attempts[n].outcome.name = "AbortError"

\* C11: the background job makes at most 4 attempts; the 2nd, 3rd and 4th are
\* issued 2000, 4000 and 8000 ms after the attempt before them ended; and when
\* every attempt is aborted by its deadline the job ends after exactly 4
\* attempts, the final time-out report coming after the 4th and nowhere before.
C11_BackoffSchedule ==
  driver.ext = "txt" =>
    /\ Len(Attempts) <= 4
    /\ \A n \in 2..Len(Attempts) :
         Attempts[n].start - Attempts[n - 1].end = <<2000, 4000, 8000>>[n - 1]
    /\ (AllTimedOut /\ driver.bpc = "done")
         => /\ Len(Attempts) = 4
            /\ driver.toasts = <<"retrying", "retrying", "retrying", "final: timed out">>
    /\ (\E k \in 1..Len(driver.toasts) : driver.toasts[k] = "final: timed out")
         => Len(Attempts) = 4 /\ driver.bpc = "done"

\* C11 witness: four attempts, each aborted by its deadline, and the final report
C11_Witness ==
  /\ driver.bpc = "done" /\ Len(Attempts) = 4 /\ AllTimedOut
  /\ Attempts[4].start - Attempts[3].end = 8000
  /\ driver.toasts[Len(driver.toasts)] = "final: timed out"

\* C12: an attempt is followed by another one only if it was aborted by its
\* deadline or failed in the network, and fewer than 3 retries were made
\* before it; an attempt that ended any other way is the last one, and the
\* job is over with its outcome reported; so is an attempt that succeeded.
C12_RetryOnlyTransient ==
  driver.ext = "txt" =>
    \A n \in 1..Len(Attempts) :
      LET a == Attempts[n]
          retryable == /\ a.outcome.kind = "error"
                       /\ \/ a.outcome.name = "AbortError"
                          \/ a.outcome.message \in NetworkMessages
      IN /\ n < Len(Attempts) => (retryable /\ a.retryCount < 3)
         /\ (a.end # -1 /\ ~retryable)
              => /\ n = Len(Attempts)
                 /\ driver.bpc = "done"
                 /\ driver.toasts[Len(driver.toasts)] # "retrying"

\* C12 witness: a network failure was retried, and the retry, answered 403,
\* was the last attempt
C12_Witness ==
  /\ driver.bpc = "done" /\ Len(Attempts) = 2
  /\ Attempts[1].outcome.message = MsgFailedToFetch
  /\ Attempts[2].outcome.status = 403
  /\ driver.toasts = <<"retrying", "processing failed">>

\* C13: an attempt the controller answered with 503 while retries remain is
\* followed by another attempt (scheduled or issued).
C13_TransientResponseRetried ==
  \A n \in 1..Len(Attempts) :
    ( /\ Attempts[n].by = "background"
      /\ Attempts[n].outcome.kind = "response" /\ Attempts[n].outcome.status = 503
      /\ Attempts[n].retryCount < 3 )
    => (n < Len(Attempts) \/ driver.bpc = "timer")

\* C14: at most one processing request of the upload is in flight, and each
\* attempt after the first is issued after the one before it has ended and
\* the backoff delay has passed.
C14_OneAttemptInFlight ==
  /\ Cardinality(InFlightAttempts) <= 1
  /\ \A n \in 2..Len(Attempts) :
       /\ Attempts[n - 1].end # -1
       /\ Attempts[n].start >= Attempts[n - 1].end + baseDelay

\* C14 witness: a second attempt in flight, the first one ended
C14_Witness ==
  /\ Len(Attempts) = 2 /\ InFlightAttempts = {2}
  /\ Attempts[1].end # -1 /\ driver.bpc = "fetch"

\* C15: the upload, once the raw file is stored, is never suspended on a
\* processing request: no request in flight is awaited by the upload.
C15_UploadNeverAwaitsProcessing ==
  \A n \in InFlightAttempts :
    ~(Attempts[n].by = "upload" /\ driver.upc \notin {"returned", "threw"})

\* C16: the file record the upload created exists from then on.
C16_FileRecordNeverDeleted ==
  driver.fileId # "" => driver.fileId \in DOMAIN files

\* --------------------------------------------- properties: one job's data
JobOf(r) == OnFile(r) /\ rq[r].chunks # <<>>

\* C17: every embedding request sent to the remote provider has a non-empty
\* input whose chunks' token counts sum to at most C_batch (250000).
C17_SubBatchWithinBatchLimit ==
  \A r \in Requests :
    rq[r].embeddingsProvider = "openai" =>
      \A n \in 1..Len(rq[r].calls) :
        /\ rq[r].calls[n].input # <<>>
        /\ rq[r].calls[n].tokens <= 250000

\* C18: with the remote provider and every write applied, the row stored for
\* a chunk of more than C_item (300000) tokens has a null embedding and its
\* content was in no request; the row of every other chunk has the embedding
\* the provider returned for that chunk's content.
C18_OversizedIsolated ==
  \A r \in Requests :
    ( JobOf(r) /\ rq[r].embeddingsProvider = "openai" /\ Alone(r) /\ AllWritesOk(r) )
    => \A n \in RowsOf(rq[r].file_id) :
         LET row == file_items[n] IN
         IF row.tokens > 300000
           THEN /\ row.openai_embedding = None
                /\ \A c \in 1..Len(rq[r].calls) :
                     \A k \in 1..Len(rq[r].calls[c].input) :
                       rq[r].calls[c].input[k] # row.content
           ELSE row.openai_embedding = Embedding(row.content)

\* C19: when processBatchEmbeddings has returned for a batch of N chunks, its
\* result has N entries, entry i being the embedding of chunk i, or null
\* where chunk i was skipped as oversized (remote) or its embedding failed
\* (local).
C19_PositionalAlignment ==
  \A r \in Requests :
    ( JobOf(r) /\ pc[r] = "upsert" /\ AllWritesOk(r) )
    => LET bc == BatchChunks(rq[r].chunks, rq[r].i)
           be == rq[r].batchEmbeddings
       IN /\ Len(be) = Len(bc)
          /\ \A n \in 1..Len(bc) :
               \/ be[n] = Embedding(bc[n].content)
               \/ /\ be[n] = None
                  /\ \/ rq[r].embeddingsProvider = "local"
                     \/ bc[n].tokens > 300000

\* C20: while one attempt runs alone on a file, the rows persisted for the
\* file are the chunks of its first b batches, in order, for some b; and when
\* the embedding of a batch begins, the rows of all batches before it are
\* persisted.
C20_PersistedIsBatchPrefix ==
  \A r \in Requests :
    ( JobOf(r) /\ Alone(r) )
    => LET cs == rq[r].chunks
           ends == {b \in 0..Len(cs) : b % BATCH_SIZE = 0 \/ b = Len(cs)}
       IN /\ \E b \in ends :
               /\ Len(file_items) = b
               /\ \A n \in 1..b : file_items[n].content = cs[n].content
          /\ pc[r] = "embed" => Len(file_items) = rq[r].i

\* C21: a remote attempt that ended after an embedding call failed made no
\* call after the failed one and wrote no chunk after it, the rows of the
\* batches persisted before are all there, and the file is finalized as
\* failed (or timeout) with the error recorded.
C21_ProviderFailureAbortsAndFinalizes ==
  \A r \in Requests :
    ( /\ JobOf(r) /\ Alone(r) /\ AllWritesOk(r) /\ pc[r] = "done"
      /\ rq[r].embeddingsProvider = "openai" /\ rq[r].error \in ProviderErrors )
    => /\ rq[r].calls[Len(rq[r].calls)].input = rq[r].currentSubBatch
       /\ Len(file_items) = rq[r].i
       /\ \A n \in 1..Len(file_items) : file_items[n].content = rq[r].chunks[n].content
       /\ files[rq[r].file_id].processing_status = errorStatus(rq[r].error)
       /\ files[rq[r].file_id].processing_error = rq[r].error

\* C22: on the local path no embedding failure reaches the error handler,
\* and an attempt that has answered, every write applied, has persisted one
\* row per chunk, in order, each with the chunk's embedding or null, and has
\* left the file completed.
C22_LocalFailureNeverFailsJob ==
  \A r \in Requests :
    ( JobOf(r) /\ Alone(r) /\ rq[r].embeddingsProvider = "local" )
    => /\ rq[r].error = ""
       /\ pc[r] # "catch"
       /\ (pc[r] = "done" /\ AllWritesOk(r))
            => /\ Len(file_items) = Len(rq[r].chunks)
               /\ \A n \in 1..Len(file_items) :
                    /\ file_items[n].content = rq[r].chunks[n].content
                    /\ file_items[n].local_embedding
                         \in {None, Embedding(rq[r].chunks[n].content)}
               /\ files[rq[r].file_id].processing_status = "completed"
               /\ resp[r].status = 200

\* C22 witness: a completed local attempt of several chunks, the first chunk
\* stored with a null embedding, the last one with its embedding
C22_Witness ==
  \E r \in Requests :
    /\ JobOf(r) /\ pc[r] = "done" /\ rq[r].embeddingsProvider = "local"
    /\ AllWritesOk(r) /\ Len(file_items) > 1
    /\ file_items[1].local_embedding = None
    /\ file_items[Len(file_items)].local_embedding # None
    /\ files[rq[r].file_id].processing_status = "completed"

NonNull(x) == x # None

\* C23: a persisted row never has both embedding slots set, a set slot is the
\* slot of the attempt's provider, and after a successful remote attempt the
\* row of every chunk that was not skipped as oversized has its slot set.
C23_OneSlotOfTheProvider ==
  \A r \in Requests :
    ( JobOf(r) /\ Alone(r) )
    => \A n \in 1..Len(file_items) :
         LET row == file_items[n] IN
         /\ ~(NonNull(row.openai_embedding) /\ NonNull(row.local_embedding))
         /\ NonNull(row.openai_embedding) => rq[r].embeddingsProvider = "openai"
         /\ NonNull(row.local_embedding) => rq[r].embeddingsProvider = "local"
         /\ ( /\ pc[r] = "done" /\ resp[r].status = 200 /\ AllWritesOk(r)
              /\ rq[r].embeddingsProvider = "openai"
              /\ row.tokens <= 300000 )
            => NonNull(row.openai_embedding)

\* the status codes the taxonomy allows for the error of each category
TaxonomyStatuses(msg) ==
  CASE msg \in {MsgMissingParams, MsgInvalidProvider} -> 400..499
    [] msg = MsgUnauthorized -> {403}
    [] msg \in {MsgMetadata, MsgStorage} -> {404}
    [] msg = MsgTooLarge -> {413}
    [] msg \in {MsgUnsupported, MsgNoChunks} -> {400}
    [] msg = MsgProviderTimeout -> {408}
    [] msg = MsgProviderConn -> {503}
    [] OTHER -> 100..599

\* C24: a failed request to the main route is answered with the status code
\* the taxonomy gives for the category of its error: 400-class for missing
\* or invalid parameters, 403 not the owner, 404 file or blob missing, 413
\* too large, 400 unsupported or empty, 408 time-out, 503 connection failure.
C24_StatusCodeByCategory ==
  \A r \in Requests :
    ( pc[r] = "done" /\ rq[r].route = "main" /\ rq[r].error # "" )
    => resp[r].status \in TaxonomyStatuses(rq[r].error)

\* the finalize step of a catch block that took no effect: the request body
\* could not be read again, or the store did not apply the update
FinalizeFailed(r) ==
  \/ CatchFileId(r) = ""
  \/ /\ Len(rq'[r].writes) = Len(rq[r].writes) + 1
     /\ ~rq'[r].writes[Len(rq'[r].writes)].ok

\* C25: failure-finalize is best effort: whatever becomes of the finalize
\* write, the response of a failed attempt is determined by the original
\* error (its category's status and message); when the finalize step fails
\* the file record is left as it was.
C25_FinalizeIsBestEffort ==
  [][\A r \in Requests :
       ( pc[r] = "catch" /\ pc'[r] = "done" )
       => /\ resp'[r].status = errorCode(rq[r].error)
          /\ resp'[r].message = errorMessage(rq[r].error)
          /\ FinalizeFailed(r) => files' = files]_vars

\* a storage failure answered 404 while the finalize step failed: the file
\* is still "processing"
C25_Witness ==
  \E r \in Requests :
    /\ OnFile(r) /\ pc[r] = "done" /\ rq[r].error = MsgStorage
    /\ resp[r].status = 404 /\ resp[r].message = errorMessage(MsgStorage)
    /\ \A n \in 1..Len(rq[r].writes) : rq[r].writes[n].op = "processing"
    /\ files[rq[r].file_id].processing_status = "processing"

\* the tokens of the first n chunks of a sequence, skipped ones included
RECURSIVE TokensOfFirst(_, _)
TokensOfFirst(chunks, n) ==
  IF n = 0 THEN 0 ELSE TokensOfFirst(chunks, n - 1) + chunks[n].tokens

\* the attempt of request r answered 200 "Embed Successful"
Succeeded(r) ==
  /\ JobOf(r) /\ pc[r] = "done"
  /\ resp[r].status = 200 /\ resp[r].message = "Embed Successful"

\* C26: the total token count a successful job reports in its response, and
\* the one it stores on the file record when its completed update is
\* applied, is the sum of the tokens of all the file's chunks, including
\* those skipped as oversized and those persisted with a null embedding.
C26_TotalTokensIsSumOverAllChunks ==
  \A r \in Requests :
    Succeeded(r)
    => LET all == blob[rq[r].file_id].chunks
           sum == TokensOfFirst(all, Len(all))
       IN /\ resp[r].statistics # None
          /\ resp[r].statistics[1].totalTokens = sum
          /\ resp[r].statistics[1].totalChunks = Len(all)
          /\ Wrote(r, "completed") => files[rq[r].file_id].tokens = sum

\* a successful job over a file with a skipped (oversized) chunk and an
\* embedded one, its total stored
C26_Witness ==
  \E r \in Requests :
    /\ Succeeded(r) /\ Wrote(r, "completed")
    /\ rq[r].embeddingsProvider = "openai"
    /\ \E n \in 1..Len(rq[r].chunks) : rq[r].chunks[n].tokens > MAX_TOKENS_PER_REQUEST
    /\ \E n \in 1..Len(rq[r].chunks) : rq[r].chunks[n].tokens <= MAX_BATCH_TOKENS
    /\ files[rq[r].file_id].tokens > MAX_TOKENS_PER_REQUEST

\* C27: within one attempt at most one embedding-provider call is in
\* flight at any moment, on the remote and on the local path.
C27_NoParallelFanOut ==
  \A r \in Requests : InFlightCalls(r) <= 1

\* C28: chunk writes are idempotent upserts keyed by file and content
\* position: whatever attempts have persisted batches of a file, the chunk
\* table holds no two rows for the same file and the same chunk (stated for
\* the attempts of the main route).
C28_NoDuplicateChunkRows ==
  (\A r \in Requests : rq[r].route # "docx")
  => \A m, n \in 1..Len(file_items) :
       ( /\ file_items[m].file_id = file_items[n].file_id
         /\ file_items[m].content = file_items[n].content )
       => m = n

\* C29: outside a development configuration no field of a failure
\* response equals the raw internal error message.
C29_NoRawErrorOutsideDevelopment ==
  \A r \in Requests :
    ( /\ pc[r] = "done" /\ rq[r].route = "main" /\ rq[r].error # ""
      /\ NODE_ENV # "development" )
    => /\ resp[r].message # rq[r].error
       /\ resp[r].error # rq[r].error

\* ------------------------------------------- properties: the PDF extractor
\* C30: every chunk the PDF extractor produces, a page emitted whole or a
\* piece of a split page, has a token count of at most CHUNK_SIZE (2000).
C30_ChunkTokenBound ==
  \A n \in 1..Len(pdf.chunks) : pdf.chunks[n].tokens <= CHUNK_SIZE

\* the chunks produced from page p, as positions in the output
ChunksOfPage(p) == { n \in 1..Len(pdf.chunks) : pdf.chunks[n].page = p }

\* the pages the loop has gone through
PagesDone == 1..(pdf.pageIndex - 1)

\* C31: each page is an independent segment. The output lists the chunks of
\* the pages in page order; a blank or whitespace-only page contributes no
\* chunk; a page of at most CHUNK_SIZE tokens contributes exactly one chunk,
\* the whole unchanged page; every other page contributes at least one
\* chunk; and each chunk is a stretch of text of one page.
C31_PagesAreIndependentSegments ==
  /\ \A m, n \in 1..Len(pdf.chunks) :
       m < n => pdf.chunks[m].page <= pdf.chunks[n].page
  /\ \A n \in 1..Len(pdf.chunks) :
       LET c == pdf.chunks[n] IN
       /\ c.page \in PagesDone
       /\ ~pdf.docs[c.page].blank
       /\ c.start >= 0 /\ c.chars > 0
       /\ c.start + c.chars <= pdf.docs[c.page].chars
  /\ \A p \in PagesDone :
       LET page == pdf.docs[p] IN
       IF page.blank THEN ChunksOfPage(p) = {}
       ELSE IF encode(page.chars, page.density) <= CHUNK_SIZE
         THEN \E n \in 1..Len(pdf.chunks) :
                /\ ChunksOfPage(p) = {n}
                /\ pdf.chunks[n].start = 0
                /\ pdf.chunks[n].chars = page.chars
       ELSE ChunksOfPage(p) # {}

\* a document of a blank page, a small page and a page that was split, read
\* to its end
C31_Witness ==
  /\ pdf.state = "returned"
  /\ \E p, q, s \in 1..Len(pdf.docs) :
       /\ p < q
       /\ pdf.docs[p].blank
       /\ Cardinality(ChunksOfPage(q)) = 1
       /\ Cardinality(ChunksOfPage(s)) > 1

\* ---------------------------------------- properties: status and totals
Terminal == {"completed", "failed", "timeout"}

\* the positions of the status writes request r has issued
StatusWrites(r) ==
  { n \in 1..Len(rq[r].writes) : rq[r].writes[n].op # "file_items" }

\* C32: the status writes of one attempt follow pending -> processing ->
\* {completed | failed | timeout}: every status written is processing or a
\* terminal one (never pending), processing is written at most once and no
\* terminal status before it, at most one terminal status is written, and an
\* attempt that wrote processing and has ended wrote exactly one.
C32_StatusWritesAreMonotonic ==
  \A r \in Requests :
    rq[r].route = "main" =>
      LET W == rq[r].writes
          P == { n \in StatusWrites(r) : W[n].op = "processing" }
          T == { n \in StatusWrites(r) : W[n].op \in Terminal }
      IN /\ StatusWrites(r) = P \cup T
         /\ Cardinality(P) <= 1
         /\ Cardinality(T) <= 1
         /\ \A n \in P, m \in T : n < m
         /\ (pc[r] = "done" /\ P # {}) => Cardinality(T) = 1

\* C33: a file's token total is written only by a success-finalize step:
\* every change of files[f].tokens is the step in which a request for f
\* answers 200 "Embed Successful"; steps of attempts that end as already
\* processed, failed, timed out or rejected leave it as it was.
C33_TokensWrittenOnlyBySuccess ==
  [][\A f \in DOMAIN files :
       files'[f].tokens # files[f].tokens
       => \E r \in Requests :
            /\ rq[r].file_id = f
            /\ pc[r] # "done" /\ pc'[r] = "done"
            /\ resp'[r].status = 200
            /\ resp'[r].message = "Embed Successful"
            /\ files'[f].tokens = rq[r].totalTokens]_vars

\* a failure-finalize write applied to a file whose token total an earlier
\* successful job had stored: the total is still there
C33_Witness ==
  \E r \in Requests :
    /\ pc[r] = "done" /\ rq[r].error # "" /\ rq[r].file_id \in DOMAIN files
    /\ Wrote(r, "failed")
    /\ files[rq[r].file_id].processing_status = "failed"
    /\ files[rq[r].file_id].tokens > 0

\* ------------------------------------------ properties: the batch planner
\* the input lists of a sequence of embedding requests, concatenated
RECURSIVE Inputs(_)
Inputs(calls) ==
  IF calls = <<>> THEN <<>> ELSE calls[1].input \o Inputs(Tail(calls))

\* the contents of the chunks that are not oversized, in input order
RECURSIVE Sendable(_)
Sendable(chunks) ==
  IF chunks = <<>> THEN <<>>
  ELSE (IF chunks[1].tokens > MAX_TOKENS_PER_REQUEST THEN <<>> ELSE <<chunks[1].content>>)
       \o Sendable(Tail(chunks))

\* an attempt on the remote path all of whose embedding requests succeeded
Planned(r) ==
  /\ JobOf(r) /\ rq[r].embeddingsProvider = "openai"
  /\ pc[r] \in {"finalize", "done"} /\ rq[r].error = ""

\* the chunk with which request n of r opens (a chunk's content is its index)
Opener(r, n) == rq[r].calls[n].input[1]

\* TRUE when no chunk of the 50-chunk batch of chunk c that precedes c was
\* sent: c is the first chunk its batch sends
FirstOfBatch(r, c) ==
  \A d \in 1..(c - 1) :
    (d - 1) \div BATCH_SIZE = (c - 1) \div BATCH_SIZE
    => rq[r].chunks[d].tokens > MAX_TOKENS_PER_REQUEST

EveryChunkPersisted(f) ==
  \A k \in 1..Len(blob[f].chunks) :
    \E n \in 1..Len(file_items) :
      /\ file_items[n].file_id = f
      /\ file_items[n].content = blob[f].chunks[k].content

\* C35: whenever the main route has answered a request for a file with 200
\* ("Embed Successful" or "File already processed"), every chunk of that
\* file has a persisted chunk row.
C35_SuccessMeansAllChunksPersisted ==
  \A r \in Requests :
    ( pc[r] = "done" /\ OnFile(r) /\ resp[r].status = 200 )
    => EveryChunkPersisted(rq[r].file_id)

\* C36: status completed is stable: no step of any request changes a file
\* record's processing_status from completed to another value.
C36_CompletedIsStable ==
  [][\A f \in DOMAIN files :
       files[f].processing_status = "completed"
       => files'[f].processing_status = "completed"]_vars

\* the messages of the errors the main route can catch
RouteMessages ==
  {MsgMissingParams, MsgInvalidProvider, MsgMetadata, MsgUnauthorized, MsgTooLarge,
   MsgConcurrent, MsgStorage, MsgApiKey, MsgUnsupported, MsgNoChunks, MsgProfile,
   MsgProviderConn, MsgProviderTimeout}

\* C37: in the failure path the recorded status and the response code
\* agree. For every error the route can catch, the status the catch block
\* would record is timeout exactly when the code it answers with is 408;
\* and in every catch step whose failure-finalize write is applied, the
\* file's status becomes timeout if the response code is 408 and failed if
\* it is anything else.
C37_StatusAgreesWithCode ==
  [][\A r \in Requests :
       ( pc[r] = "catch" /\ pc'[r] = "done" )
       => /\ \A msg \in RouteMessages :
               (errorStatus(msg) = "timeout") <=> (errorCode(msg) = 408)
          /\ ( /\ Len(rq'[r].writes) = Len(rq[r].writes) + 1
               /\ rq'[r].writes[Len(rq'[r].writes)].ok
               /\ rq[r].file_id \in DOMAIN files )
             => files'[rq[r].file_id].processing_status =
                  IF resp'[r].status = 408 THEN "timeout" ELSE "failed"]_vars

\* a failure-finalize write that was applied: the file is failed and the
\* answer is not 408
C37_Witness ==
  \E r \in Requests :
    /\ pc[r] = "done" /\ rq[r].error # "" /\ rq[r].file_id \in DOMAIN files
    /\ Wrote(r, "failed")
    /\ files[rq[r].file_id].processing_status = "failed"
    /\ resp[r].status = 404

\* ------------------------------------- properties: the driver, continued
\* C38: the deadline timer of an attempt is cancelled (or has fired) when the
\* attempt ends, on every path: no ended attempt has its timer still armed.
C38_DeadlineTimerCancelled ==
  \A n \in 1..Len(Attempts) :
    Attempts[n].end # -1 => Attempts[n].timeoutId # "armed"

\* C39: distinct file records never share a storage path: any two records
\* whose path has been written carry different paths.
C39_DistinctFilesDistinctPaths ==
  \A f, g \in DOMAIN files :
    ( f # g /\ files[f].file_path # None /\ files[g].file_path # None )
    => files[f].file_path # files[g].file_path

\* C40: a processing request is issued only after the record insert, the
\* blob upload and the path update of the upload have all succeeded, in that
\* order, the record then carrying the path; an upload in which one of them
\* failed (the size-limit rejection included) never issues a request.
C40_RequestOnlyAfterUpload ==
  /\ Attempts # <<>> => driver.steps = <<"insert", "upload", "update">>
  /\ driver.bpc # "none" => driver.steps = <<"insert", "upload", "update">>
  /\ driver.steps = <<"insert", "upload", "update">>
       => /\ driver.size <= SIZE_LIMIT
          /\ driver.fileId \in DOMAIN blob
          /\ driver.fileId \in DOMAIN files
               => files[driver.fileId].file_path = Some(filePath("u1", driver.name))

\* the first processing request of a background job is in flight, the
\* record carrying its path
C40_Witness ==
  /\ driver.bpc = "fetch" /\ Len(Attempts) = 1
  /\ driver.fileId \in DOMAIN files
  /\ files[driver.fileId].file_path = driver.filePath
  /\ driver.filePath # None

====
